---------------------------- MODULE Spec2Model ----------------------------
(***************************************************************************)
(* Model of the orbit coverage engine of GREMNIN (src/backend.py) and of   *)
(* the caller's use of it (src/frontend.py).                               *)
(*                                                                         *)
(* Fixed-point conventions of the model (Python floats are modelled as     *)
(* scaled integers, exact on the values the model draws):                  *)
(*   - angles are hundredths of a degree (Deg(1) = 100);                   *)
(*   - instants are whole seconds since 2000-01-01 00:00:00 UTC;           *)
(*   - the requested duration (hours) is held in minutes (1/60 h);         *)
(*   - a fractional day-of-year is held in units of 1e-5 day;              *)
(*   - strings are sequences of one-character strings.                     *)
(* The external capabilities (the SGP4 propagator, the frame rotation and  *)
(* pyproj's geocentric->geodetic transform) are nondeterministic choices   *)
(* over bounded sets of their possible results.                            *)
(***************************************************************************)
EXTENDS Integers, Sequences, FiniteSets, TLC

(***************************************************************************)
(* Bounds of the model.                                                    *)
(***************************************************************************)
\* largest sample count (num_samples) a modelled run may loop over
MaxSamples == 3
\* propagator failure codes are 1..MaxErrCode
MaxErrCode == 2

(***************************************************************************)
(* Program constants.                                                      *)
(***************************************************************************)
TLE_LINE_LENGTH == 69
YEAR_PIVOT == 57
earth_radius_km == 6371

(***************************************************************************)
(* Small helpers.                                                          *)
(***************************************************************************)
Deg(d) == d * 100
Abs(x) == IF x < 0 THEN -x ELSE x

\* math.ceil(a / b) for Python floats a >= 0, b # 0
Ceil(a, b) == IF b > 0 THEN -((-a) \div b) ELSE -(a \div (-b))

Digits == {"0", "1", "2", "3", "4", "5", "6", "7", "8", "9"}
DigitVal(c) ==
    CASE c = "0" -> 0 [] c = "1" -> 1 [] c = "2" -> 2 [] c = "3" -> 3
      [] c = "4" -> 4 [] c = "5" -> 5 [] c = "6" -> 6 [] c = "7" -> 7
      [] c = "8" -> 8 [] c = "9" -> 9

Blank(c) == c \in {" ", "\n"}

RECURSIVE LStrip(_)
LStrip(s) == IF s # <<>> /\ Blank(Head(s)) THEN LStrip(Tail(s)) ELSE s

RECURSIVE RStrip(_)
RStrip(s) ==
    IF s # <<>> /\ Blank(s[Len(s)]) THEN RStrip(SubSeq(s, 1, Len(s) - 1)) ELSE s

Strip(s) == RStrip(LStrip(s))

AllDigits(s) == \A k \in 1..Len(s) : s[k] \in Digits

RECURSIVE DigitsVal(_)
DigitsVal(s) ==
    IF s = <<>> THEN 0
    ELSE 10 * DigitsVal(SubSeq(s, 1, Len(s) - 1)) + DigitVal(s[Len(s)])

\* Python int(str): blanks stripped, an optional sign, then digits; anything
\* else raises ValueError (ok = FALSE).
PyInt(str) ==
    LET t == Strip(str)
        signed == t # <<>> /\ Head(t) \in {"+", "-"}
        body == IF signed THEN Tail(t) ELSE t
    IN  IF body # <<>> /\ AllDigits(body)
        THEN [ok |-> TRUE,
              val |-> IF signed /\ Head(t) = "-" THEN -DigitsVal(body)
                      ELSE DigitsVal(body)]
        ELSE [ok |-> FALSE, val |-> 0]

\* index of the first "." of s, or 0
RECURSIVE DotAt(_, _)
DotAt(s, k) ==
    IF k > Len(s) THEN 0 ELSE IF s[k] = "." THEN k ELSE DotAt(s, k + 1)

\* the first five fractional digits of a digit string, as 1e-5 units
Frac5(s) ==
    LET p == SubSeq(s \o <<"0", "0", "0", "0", "0">>, 1, 5) IN DigitsVal(p)

\* Python float(str) for an unsigned decimal numeral "ddd.dddddddd": the value
\* in units of 1e-5; anything else raises ValueError (ok = FALSE).
PyFloat(str) ==
    LET t == Strip(str)
        d == DotAt(t, 1)
        ip == IF d = 0 THEN t ELSE SubSeq(t, 1, d - 1)
        fp == IF d = 0 THEN <<>> ELSE SubSeq(t, d + 1, Len(t))
    IN  IF (ip # <<>> \/ fp # <<>>) /\ AllDigits(ip) /\ AllDigits(fp)
        THEN [ok |-> TRUE, val |-> DigitsVal(ip) * 100000 + Frac5(fp)]
        ELSE [ok |-> FALSE, val |-> 0]

(***************************************************************************)
(* Calendar: datetime(year, month, day, tzinfo=utc) and timedelta.         *)
(***************************************************************************)
IsLeap(year) == year % 4 = 0 /\ (year % 100 # 0 \/ year % 400 = 0)

DaysInMonth(year, month) ==
    CASE month \in {1, 3, 5, 7, 8, 10, 12} -> 31
      [] month \in {4, 6, 9, 11} -> 30
      [] OTHER -> IF IsLeap(year) THEN 29 ELSE 28

\* datetime(...) raises ValueError outside these ranges
ValidDate(year, month, day) ==
    /\ year \in 1..9999
    /\ month \in 1..12
    /\ day \in 1..DaysInMonth(year, month)

\* days from 0001-01-01 to January 1st of year
DaysBeforeYear(year) ==
    LET y == year - 1 IN y * 365 + y \div 4 - y \div 100 + y \div 400

RECURSIVE DaysBeforeMonth(_, _)
DaysBeforeMonth(year, month) ==
    IF month <= 1 THEN 0
    ELSE DaysBeforeMonth(year, month - 1) + DaysInMonth(year, month - 1)

\* the instant year-month-day 00:00:00 UTC plus secs seconds
Instant(year, month, day, secs) ==
    (DaysBeforeYear(year) - DaysBeforeYear(2000)
       + DaysBeforeMonth(year, month) + (day - 1)) * 86400 + secs

\* timedelta(days=d, seconds=s) added to an instant
AddDelta(t, days, secs) == t + days * 86400 + secs

(***************************************************************************)
(* Time utilities of the backend.                                          *)
(***************************************************************************)
days_in_month_prefix_sum ==
    <<0, 31, 59, 90, 120, 151, 181, 212, 243, 273, 304, 334>>

\* ^\d{2}-\d{2}-\d{4}$ ; Python's $ also matches before one trailing newline
date_format_check(startdate_str) ==
    LET s == startdate_str
        n == Len(s)
    IN  /\ n = 10 \/ (n = 11 /\ s[11] = "\n")
        /\ \A k \in {1, 2, 4, 5, 7, 8, 9, 10} : s[k] \in Digits
        /\ s[3] = "-" /\ s[6] = "-"

\* a mutant: the leap day is never added
get_day_of_year_no_leap(day, month, year) ==
    day + days_in_month_prefix_sum[month]

get_day_of_year(day, month, year) ==
    LET is_leap == (year % 4 = 0 /\ (year % 100 # 0 \/ year % 400 = 0))
        day_of_year == day + days_in_month_prefix_sum[month]
    IN  IF is_leap /\ month > 2 THEN day_of_year + 1 ELSE day_of_year

(***************************************************************************)
(* Trigonometry on the angles the model draws: math.cos(math.radians(x))   *)
(* in units of 1e-5, for x in hundredths of a degree.  cos(90 deg) is      *)
(* 6.1e-17 in floating point, which is 0 at this resolution.               *)
(***************************************************************************)
Cos5(x) ==
    LET a == Abs(x) IN
    CASE a = 0 -> 100000
      [] a = 1000 -> 98481
      [] a = 4000 -> 76604
      [] a = 5000 -> 64279
      [] a = 6000 -> 50000
      [] a = 8000 -> 17365
      [] a = 8900 -> 1745
      [] a = 8950 -> 873
      [] a = 9000 -> 0
      [] a = 18000 -> -100000

Sin5(x) == Cos5(9000 - x)

\* truncating division (the fixed-point rounding of a float quotient)
TruncDiv(a, b) == IF a >= 0 THEN a \div b ELSE -((-a) \div b)

(***************************************************************************)
(* Scan footprint geometry (angles in hundredths of a degree, km whole).   *)
(***************************************************************************)
\* (distance_km / 6371) * (180 / pi); 180/pi = 57.2958 degrees
lat_change(distance_km) ==
    TruncDiv(distance_km * 572958, earth_radius_km * 100)

\* earth_radius_at_lat is held in units of 0.01 km; below that resolution it
\* is the code's |earth_radius_at_lat| < 1e-9
lon_change(lat_deg, distance_km) ==
    LET earth_radius_at_lat == (earth_radius_km * Cos5(lat_deg)) \div 1000
    IN  IF earth_radius_at_lat = 0 THEN 0
        ELSE TruncDiv(distance_km * 572958, earth_radius_at_lat)

ZeroBox == <<0, 0, 0, 0>>

\* (x + 180) % 360 - 180; Python's % takes the sign of the divisor
WrapLon(x) == ((x + Deg(180)) % Deg(360)) - Deg(180)

\* a mutant: the seam normalisation of max_lon is dropped
get_scanning_square_corners_nowrap(sat_lat, sat_lon, scan_half_width_km) ==
    IF ~(Deg(-90) <= sat_lat /\ sat_lat <= Deg(90)
         /\ Deg(-180) <= sat_lon /\ sat_lon <= Deg(180))
    THEN ZeroBox
    ELSE LET delta_lat == lat_change(scan_half_width_km)
             delta_lon == lon_change(sat_lat, scan_half_width_km)
         IN  <<sat_lat - delta_lat, sat_lat + delta_lat,
               WrapLon(sat_lon - delta_lon),
               sat_lon + delta_lon>>

\* a mutant: the latitude interval is built from the longitude delta
get_scanning_square_corners_swapped(sat_lat, sat_lon, scan_half_width_km) ==
    IF ~(Deg(-90) <= sat_lat /\ sat_lat <= Deg(90)
         /\ Deg(-180) <= sat_lon /\ sat_lon <= Deg(180))
    THEN ZeroBox
    ELSE LET delta_lat == lat_change(scan_half_width_km)
             delta_lon == lon_change(sat_lat, scan_half_width_km)
         IN  <<sat_lat - delta_lon, sat_lat + delta_lat,
               WrapLon(sat_lon - delta_lon),
               WrapLon(sat_lon + delta_lon)>>

\* returns [min_lat, max_lat, min_lon, max_lon]; the ValueError raised for
\* invalid coordinates is caught inside and yields the all-zero box
\* a mutant: invalid coordinates give the empty box at the point itself
get_scanning_square_corners_point_box(sat_lat, sat_lon, scan_half_width_km) ==
    IF ~(Deg(-90) <= sat_lat /\ sat_lat <= Deg(90)
         /\ Deg(-180) <= sat_lon /\ sat_lon <= Deg(180))
    THEN <<sat_lat, sat_lat, sat_lon, sat_lon>>
    ELSE LET delta_lat == lat_change(scan_half_width_km)
             delta_lon == lon_change(sat_lat, scan_half_width_km)
         IN  <<sat_lat - delta_lat, sat_lat + delta_lat,
               WrapLon(sat_lon - delta_lon), WrapLon(sat_lon + delta_lon)>>

get_scanning_square_corners(sat_lat, sat_lon, scan_half_width_km) ==
    IF ~(Deg(-90) <= sat_lat /\ sat_lat <= Deg(90)
         /\ Deg(-180) <= sat_lon /\ sat_lon <= Deg(180))
    THEN ZeroBox
    ELSE LET delta_lat == lat_change(scan_half_width_km)
             delta_lon == lon_change(sat_lat, scan_half_width_km)
             min_lat == sat_lat - delta_lat
             max_lat == sat_lat + delta_lat
             min_lon == sat_lon - delta_lon
             max_lon == sat_lon + delta_lon
         IN  <<min_lat, max_lat, WrapLon(min_lon), WrapLon(max_lon)>>

\* a footprint entry that is no int or float (None), held as an integer
\* below every number the model draws
NotANumber == Deg(-1000000)

\* isinstance(x, (int, float))
IsNumber(x) == x # NotANumber

\* a mutant: the entries are not checked to be numbers
is_point_in_scan_area_unchecked(target_lat, target_lon, scan_box) ==
    IF Len(scan_box) # 4 THEN FALSE
    ELSE /\ scan_box[1] <= target_lat /\ target_lat <= scan_box[2]
         /\ IF scan_box[3] <= scan_box[4]
            THEN scan_box[3] <= target_lon /\ target_lon <= scan_box[4]
            ELSE \/ (scan_box[3] <= target_lon /\ target_lon <= Deg(180))
                 \/ (Deg(-180) <= target_lon /\ target_lon <= scan_box[4])

\* a mutant: the wrapped branch is missing
is_point_in_scan_area_plain(target_lat, target_lon, scan_box) ==
    IF Len(scan_box) # 4 THEN FALSE
    ELSE IF ~(\A k \in 1..4 : IsNumber(scan_box[k])) THEN FALSE
    ELSE /\ scan_box[1] <= target_lat /\ target_lat <= scan_box[2]
         /\ scan_box[3] <= target_lon /\ target_lon <= scan_box[4]

\* scan_box is unpacked into four values (a wrong length raises, which the
\* except clause turns into False); non-numbers give False
is_point_in_scan_area(target_lat, target_lon, scan_box) ==
    IF Len(scan_box) # 4 THEN FALSE
    ELSE LET min_lat == scan_box[1]
             max_lat == scan_box[2]
             min_lon == scan_box[3]
             max_lon == scan_box[4]
         IN  IF ~(\A k \in 1..4 : IsNumber(scan_box[k])) THEN FALSE
             ELSE IF ~(min_lat <= target_lat /\ target_lat <= max_lat) THEN FALSE
             ELSE IF min_lon <= max_lon
                  THEN min_lon <= target_lon /\ target_lon <= max_lon
                  ELSE \/ (min_lon <= target_lon /\ target_lon <= Deg(180))
                       \/ (Deg(-180) <= target_lon /\ target_lon <= max_lon)

(***************************************************************************)
(* Geodetic -> Earth-fixed Cartesian (km whole), WGS84.                    *)
(***************************************************************************)
\* N = a / sqrt(1 - e2 sin^2(lat)) in metres, a = 6378137 m,
\* e2 = 2f - f^2, f = 1/298.257223563, on the latitudes the model draws
PrimeVertical(lat_deg) ==
    LET a == Abs(lat_deg) IN
    CASE a = 0 -> 6378137
      [] a = 5000 -> 6390702
      [] a = 9000 -> 6399594

\* N * (1 - e2) in metres
PrimeVerticalPolar(lat_deg) ==
    LET a == Abs(lat_deg) IN
    CASE a = 0 -> 6335439
      [] a = 5000 -> 6347921
      [] a = 9000 -> 6356752

geodetic_to_cartesian_ecef(lat_deg, lon_deg, alt_km) ==
    LET N == PrimeVertical(lat_deg) \div 1000
        Nz == PrimeVerticalPolar(lat_deg) \div 1000
        rxy == TruncDiv((N + alt_km) * Cos5(lat_deg), 100000)
        X == TruncDiv(rxy * Cos5(lon_deg), 100000)
        Y == TruncDiv(rxy * Sin5(lon_deg), 100000)
        Z == TruncDiv((Nz + alt_km) * Sin5(lat_deg), 100000)
    IN  <<X, Y, Z>>

(***************************************************************************)
(* Python values: None is the empty sequence, a present value x is <<x>>.  *)
(***************************************************************************)
None == <<>>
Some(x) == <<x>>
IsNone(o) == o = <<>>
Get(o) == o[1]

(***************************************************************************)
(* State.  The arguments and locals of calculate_orbit_data keep their     *)
(* names; pc is the position of the run in the function body.              *)
(***************************************************************************)
VARIABLES
    tle1, tle2, start_date_str, rate_choice, requested_time_h_float,
    start_from_tle_date, target_lat, target_lon, scan_area_size,
    sampling_interval, live_only,
    pc, current_utc_dt, error_code_live, live_sat_pos_geodetic,
    live_sat_pos_ecef,
    time_step_seconds, num_samples, start_datetime_utc, i,
    orbit_data_main, covered_orbit_positions_with_time_and_box,
    total_found_times, successful_propagations,
    sgp4_error_codes_encountered,
    ret, raised, sgp4_calls, sample_times,
    sat_lat, sat_lon, scan_half_width_km, scan_box, in_area, gpc,
    date_day, date_month, date_year, ordinal, cpc,
    checkbox_enable_live_updates, live_update_timer, map_initialized,
    engine_calls, last_handler

args == <<tle1, tle2, start_date_str, rate_choice, requested_time_h_float,
          start_from_tle_date, target_lat, target_lon, scan_area_size,
          sampling_interval, live_only>>
live == <<current_utc_dt, error_code_live, live_sat_pos_geodetic,
          live_sat_pos_ecef>>
grid == <<time_step_seconds, num_samples, start_datetime_utc>>
loop == <<i, orbit_data_main, covered_orbit_positions_with_time_and_box,
          total_found_times, successful_propagations,
          sgp4_error_codes_encountered, sample_times>>
cal == <<date_day, date_month, date_year, ordinal, cpc>>
\* the window's live-update checkbox (checked or not) and timer (active or
\* not), map_initialized, the number of calls of calculate_orbit_data made
\* by the window, and the handler that ran last
ui == <<checkbox_enable_live_updates, live_update_timer, map_initialized,
        engine_calls, last_handler>>
geo == <<sat_lat, sat_lon, scan_half_width_km, scan_box, in_area, gpc, cal, ui>>
run == <<pc, live, grid, loop, ret, raised, sgp4_calls>>
vars == <<args, run, geo>>

(***************************************************************************)
(* The values the model draws the arguments from.                          *)
(***************************************************************************)
\* an element line: its length and the two fields line 1 is sliced into,
\* tle1[18:20] (epoch year) and tle1[20:32] (epoch day of year)
Line(n, yy, day) == Some([length |-> n, epoch_year |-> yy, epoch_day |-> day])

DAY_001_5 == <<"0", "0", "1", ".", "5", "0", "0", "0", "0", "0", "0", "0">>
DAY_060_25 == <<"0", "6", "0", ".", "2", "5", "0", "0", "0", "0", "0", "0">>
DAY_BAD == <<"0", "o", "1", ".", "5", "0", "0", "0", "0", "0", "0", "0">>

TLE1_2024 == Line(TLE_LINE_LENGTH, <<"2", "4">>, DAY_001_5)
TLE1_1957 == Line(TLE_LINE_LENGTH, <<"5", "7">>, DAY_060_25)
TLE1_BADEPOCH == Line(TLE_LINE_LENGTH, <<"2", "4">>, DAY_BAD)
TLE1_SHORT == Line(TLE_LINE_LENGTH - 1, <<"2", "4">>, DAY_001_5)

Tle1Values == {None, TLE1_SHORT, TLE1_2024, TLE1_1957, TLE1_BADEPOCH}
Tle2Values == {None,
               Line(TLE_LINE_LENGTH, <<>>, <<>>),
               Line(TLE_LINE_LENGTH + 1, <<>>, <<>>)}

DATE_EMPTY == <<>>
DATE_SHORT == <<"1", "-", "3", "-", "2", "0", "2", "4">>
DATE_NOT_A_DAY == <<"2", "9", "-", "0", "2", "-", "2", "0", "2", "3">>
DATE_OK == <<"0", "1", "-", "0", "3", "-", "2", "0", "2", "4">>
\* a date followed by a newline
DATE_NEWLINE == DATE_OK \o <<"\n">>
DateValues == {DATE_EMPTY, DATE_SHORT, DATE_NOT_A_DAY, DATE_OK, DATE_NEWLINE}

RateValues == 0..3
\* requested_time_h_float, in minutes
DurationValues == {-1, 0, 1, 2}
\* sampling_interval
IntervalValues == {-1, 0, 45, 60}
\* scan_area_size, km
ScanSizeValues == {200}
\* (target_lat, target_lon)
TargetValues == {<<0, 0>>, <<Deg(50), Deg(100)>>}

\* what the propagator followed by teme_to_ecef and ecef_to_geodetic may
\* give for a successful sample: latitude, longitude, altitude (km)
GeoPoints == {[lat |-> 0, lon |-> 50, alt |-> 400],
              [lat |-> 0, lon |-> -50, alt |-> 410],
              [lat |-> Deg(91), lon |-> 0, alt |-> 400],
              [lat |-> Deg(50), lon |-> Deg(100) + 30, alt |-> 420]}
LivePoints == {[lat |-> 0, lon |-> Deg(90), alt |-> 400]}
ErrCodes == 1..MaxErrCode
ClockValues == {Instant(2026, 11, 4, 0)}

(***************************************************************************)
(* Messages and return values of calculate_orbit_data.                     *)
(***************************************************************************)
NoCodes == [c \in {} |-> 0]

\* a message starting with "Error"
ErrorMessage(kind) ==
    [kind |-> kind, error |-> TRUE, points |-> 0, scans |-> 0,
     codes |-> NoCodes, details |-> ""]

\* return <message>, None, None, None, None, None, None
ErrorReturn(msg) ==
    [message |-> Some(msg), orbit_data_main |-> None, covered |-> None,
     target_point |-> None, start_datetime_utc |-> None,
     live_sat_pos_geodetic |-> None, live_sat_pos_ecef |-> None]

NoReturn ==
    [message |-> None, orbit_data_main |-> None, covered |-> None,
     target_point |-> None, start_datetime_utc |-> None,
     live_sat_pos_geodetic |-> None, live_sat_pos_ecef |-> None]

Return(r) == /\ ret' = r
             /\ pc' = "done"

(***************************************************************************)
(* The pure steps of calculate_orbit_data.                                 *)
(***************************************************************************)
\* a mutant: only the first line is validated
ElementsValid_line1_only(t1, t2) ==
    ~IsNone(t1) /\ Get(t1).length = TLE_LINE_LENGTH

\* tle1 and tle2 and len(tle1) == 69 and len(tle2) == 69
ElementsValid(t1, t2) ==
    /\ ~IsNone(t1) /\ Get(t1).length > 0
    /\ ~IsNone(t2) /\ Get(t2).length > 0
    /\ Get(t1).length = TLE_LINE_LENGTH
    /\ Get(t2).length = TLE_LINE_LENGTH

\* a mutant: the multipliers of minutes and hours are exchanged
RateMultiplier_swapped(choice) ==
    CASE choice = 1 -> 1
      [] choice = 2 -> 3600
      [] choice = 3 -> 60
      [] OTHER -> 0

\* a mutant: an unknown selector counts as seconds
RateMultiplier_lenient(choice) ==
    CASE choice = 2 -> 60
      [] choice = 3 -> 3600
      [] OTHER -> 1

\* the multiplier of the sampling interval, or 0 for an invalid selector
RateMultiplier(choice) ==
    CASE choice = 1 -> 1
      [] choice = 2 -> 60
      [] choice = 3 -> 3600
      [] OTHER -> 0

\* a mutant: the zero-duration check is missing
IsZeroDuration_never(hours) == FALSE

\* requested_time_h_float == 0
IsZeroDuration(hours) == hours = 0

\* requested_time_h_float * 3600, the duration being held in minutes
RequestedSeconds(hours) == (hours * 3600) \div 60

\* a mutant: one sample more than the rounded-up quotient
SampleCount_extra(seconds, step) == Ceil(Abs(seconds), step) + 1

\* a mutant: the sample count is rounded down
SampleCount_floor(seconds, step) == Abs(seconds) \div step

\* int(math.ceil(abs(requested_time_seconds) / time_step_seconds))
SampleCount(seconds, step) == Ceil(Abs(seconds), step)

\* the epoch of the element line; a ValueError gives ok = FALSE
EpochFromElements(line1) ==
    LET yy == PyInt(line1.epoch_year)
        dd == PyFloat(line1.epoch_day)
        year_short == yy.val
        full_year == year_short + (IF year_short < YEAR_PIVOT THEN 2000 ELSE 1900)
        day_of_year_float == dd.val
        days_offset == (day_of_year_float \div 100000) - 1
        fraction_of_day == day_of_year_float - days_offset * 100000
        seconds_in_fraction == (fraction_of_day * 864) \div 1000
    IN  IF yy.ok /\ dd.ok
        THEN [ok |-> TRUE,
              at |-> AddDelta(Instant(full_year, 1, 1, 0),
                              days_offset, seconds_in_fraction)]
        ELSE [ok |-> FALSE, at |-> 0]

\* the epoch of an explicit start date: "format" when date_format_check
\* fails, "value" when int() or datetime() raises ValueError
EpochFromDate(str) ==
    IF ~date_format_check(str) THEN [status |-> "format", at |-> 0]
    ELSE LET day == PyInt(SubSeq(str, 1, 2))
             month == PyInt(SubSeq(str, 4, 5))
             year == PyInt(SubSeq(str, 7, Len(str)))
         IN  IF day.ok /\ month.ok /\ year.ok
                /\ ValidDate(year.val, month.val, day.val)
             THEN [status |-> "ok",
                   at |-> Instant(year.val, month.val, day.val, 0)]
             ELSE [status |-> "value", at |-> 0]

\* a mutant: the sign of the duration is ignored
SampleTime_forward(start, k, step, hours) == start + k * step

\* start + timedelta(seconds = i * step * (1 if duration >= 0 else -1))
SampleTime(start, k, step, hours) ==
    start + k * step * (IF hours >= 0 THEN 1 ELSE -1)

\* sgp4_error_codes_encountered[code] = ....get(code, 0) + 1
Tally(codes, code) ==
    [c \in DOMAIN codes \cup {code} |->
        IF c \in DOMAIN codes
        THEN codes[c] + (IF c = code THEN 1 ELSE 0)
        ELSE 1]

\* a mutant: every successfully propagated sample counts as covered
SampleOutcome_always_covered(error_code, p, tlat, tlon, size, at) ==
    IF error_code = 0
    THEN LET box == get_scanning_square_corners(p.lat, p.lon, size \div 2)
         IN  [row |-> <<p.lat, p.lon, p.alt, error_code, 1,
                        box[1], box[2], box[3], box[4]>>,
              covered |-> Some(<<p.lat, p.lon, p.alt, at, box>>)]
    ELSE [row |-> <<0, 0, 0, error_code, 0, 0, 0, 0, 0>>, covered |-> None]

\* a mutant: a covered sample is flagged in its row but not appended to the
\* coverage list
SampleOutcome_flag_only(error_code, p, tlat, tlon, size, at) ==
    IF error_code = 0
    THEN LET box == get_scanning_square_corners(p.lat, p.lon, size \div 2)
         IN  [row |-> <<p.lat, p.lon, p.alt, error_code,
                        IF is_point_in_scan_area(tlat, tlon, box) THEN 1 ELSE 0,
                        box[1], box[2], box[3], box[4]>>,
              covered |-> None]
    ELSE [row |-> <<0, 0, 0, error_code, 0, 0, 0, 0, 0>>, covered |-> None]

\* one pass of the loop body: the row appended to orbit_data_main and the
\* entry appended to the coverage list, if any
SampleOutcome(error_code, p, tlat, tlon, size, at) ==
    IF error_code = 0
    THEN LET scan_box_corners ==
                 get_scanning_square_corners(p.lat, p.lon, size \div 2)
             is_covered == is_point_in_scan_area(tlat, tlon, scan_box_corners)
         IN  [row |-> <<p.lat, p.lon, p.alt, error_code,
                        IF is_covered THEN 1 ELSE 0,
                        scan_box_corners[1], scan_box_corners[2],
                        scan_box_corners[3], scan_box_corners[4]>>,
              covered |-> IF is_covered
                          THEN Some(<<p.lat, p.lon, p.alt, at, scan_box_corners>>)
                          ELSE None]
    ELSE [row |-> <<0, 0, 0, error_code, 0, 0, 0, 0, 0>>, covered |-> None]

\* the message of a run in which no sample propagated: the details are the
\* per-code tally, unless one of the two fixed texts replaces it
FailureMessage(codes, n) ==
    LET details == IF DOMAIN codes = {} /\ n > 0 THEN "no_specific"
                   ELSE IF n = 0 THEN "zero_samples"
                   ELSE "codes"
    IN  [kind |-> "propagation", error |-> TRUE, points |-> 0, scans |-> 0,
         codes |-> IF details = "codes" THEN codes ELSE NoCodes,
         details |-> details]

\* "Orbit data calculated successfully. ..." with the note of the codes
SuccessMessage(succ, found, codes) ==
    [kind |-> "success", error |-> FALSE, points |-> succ, scans |-> found,
     codes |-> codes, details |-> ""]

\* a mutant: a run with any failed sample is reported as a failure
FinalReturn_strict(succ, found, codes, n, rows, cov, tgt, start, lgeo, lecef) ==
    IF succ = 0 \/ DOMAIN codes # {}
    THEN ErrorReturn(FailureMessage(codes, n))
    ELSE [message |-> Some(SuccessMessage(succ, found, codes)),
          orbit_data_main |-> Some(rows), covered |-> Some(cov),
          target_point |-> Some(tgt), start_datetime_utc |-> Some(start),
          live_sat_pos_geodetic |-> lgeo, live_sat_pos_ecef |-> lecef]

\* a mutant: the success return leaves the live snapshot out
FinalReturn_no_live(succ, found, codes, n, rows, cov, tgt, start, lgeo, lecef) ==
    IF succ = 0
    THEN ErrorReturn(FailureMessage(codes, n))
    ELSE [message |-> Some(SuccessMessage(succ, found, codes)),
          orbit_data_main |-> Some(rows), covered |-> Some(cov),
          target_point |-> Some(tgt), start_datetime_utc |-> Some(start),
          live_sat_pos_geodetic |-> None, live_sat_pos_ecef |-> None]

\* the value returned after the loop
FinalReturn(succ, found, codes, n, rows, cov, tgt, start, lgeo, lecef) ==
    IF succ = 0
    THEN ErrorReturn(FailureMessage(codes, n))
    ELSE [message |-> Some(SuccessMessage(succ, found, codes)),
          orbit_data_main |-> Some(rows), covered |-> Some(cov),
          target_point |-> Some(tgt), start_datetime_utc |-> Some(start),
          live_sat_pos_geodetic |-> lgeo, live_sat_pos_ecef |-> lecef]

\* a mutant: the live-only flag is ignored
LiveOnlyRequested_never(flag) == FALSE

\* if live_only: the early return of line 130
LiveOnlyRequested(flag) == flag

(***************************************************************************)
(* One invocation of calculate_orbit_data.                                 *)
(***************************************************************************)
GeoIdle ==
    /\ sat_lat = 0 /\ sat_lon = 0 /\ scan_half_width_km = 0
    /\ scan_box = <<>> /\ in_area = FALSE /\ gpc = "idle"

CalIdle ==
    /\ date_day = 1 /\ date_month = 1 /\ date_year = 2000
    /\ ordinal = 0 /\ cpc = "idle"

UiIdle ==
    /\ checkbox_enable_live_updates = FALSE /\ live_update_timer = FALSE
    /\ map_initialized = FALSE /\ engine_calls = 0 /\ last_handler = "none"

RunLocalsInit ==
    /\ current_utc_dt = 0
    /\ error_code_live = 0
    /\ live_sat_pos_geodetic = None
    /\ live_sat_pos_ecef = None
    /\ time_step_seconds = 0
    /\ num_samples = 0
    /\ start_datetime_utc = None
    /\ i = 0
    /\ orbit_data_main = <<>>
    /\ covered_orbit_positions_with_time_and_box = <<>>
    /\ total_found_times = 0
    /\ successful_propagations = 0
    /\ sgp4_error_codes_encountered = NoCodes
    /\ ret = NoReturn
    /\ raised = None
    /\ sgp4_calls = 0
    /\ sample_times = <<>>

Init ==
    /\ tle1 \in Tle1Values
    /\ tle2 \in Tle2Values
    /\ start_date_str \in DateValues
    /\ rate_choice \in RateValues
    /\ requested_time_h_float \in DurationValues
    /\ start_from_tle_date \in BOOLEAN
    /\ \E t \in TargetValues : target_lat = t[1] /\ target_lon = t[2]
    /\ scan_area_size \in ScanSizeValues
    /\ sampling_interval \in IntervalValues
    /\ live_only \in BOOLEAN
    /\ pc = "validate"
    /\ RunLocalsInit
    /\ GeoIdle
    /\ CalIdle
    /\ UiIdle

\* lines 108-113: the length check, then Satrec.twoline2rv, which may raise
Validate ==
    /\ pc = "validate"
    /\ IF ~ElementsValid(tle1, tle2)
       THEN Return(ErrorReturn(ErrorMessage("invalid_elements")))
       ELSE \E parsed \in BOOLEAN :
              IF parsed
              THEN pc' = "live" /\ ret' = ret
              ELSE Return(ErrorReturn(ErrorMessage("element_parse")))
    /\ UNCHANGED <<args, live, grid, loop, raised, sgp4_calls, geo>>

\* lines 114-131: the live position at the current instant, and the early
\* return of live-only mode
Live ==
    /\ pc = "live"
    /\ \E now \in ClockValues, code \in {0} \cup ErrCodes, p \in LivePoints :
         /\ current_utc_dt' = now
         /\ error_code_live' = code
         /\ sgp4_calls' = sgp4_calls + 1
         /\ IF code = 0
            THEN /\ live_sat_pos_geodetic' = Some(<<p.lat, p.lon, p.alt, now>>)
                 /\ live_sat_pos_ecef' =
                        Some(geodetic_to_cartesian_ecef(p.lat, p.lon, p.alt))
            ELSE /\ live_sat_pos_geodetic' = Some(<<0, 0, 0, now>>)
                 /\ live_sat_pos_ecef' = Some(<<0, 0, (6378137 * 11) \div 10000>>)
    /\ IF LiveOnlyRequested(live_only)
       THEN Return([NoReturn EXCEPT
                      !.live_sat_pos_geodetic = live_sat_pos_geodetic',
                      !.live_sat_pos_ecef = live_sat_pos_ecef'])
       ELSE pc' = "rate" /\ ret' = ret
    /\ UNCHANGED <<args, grid, loop, raised, geo>>

\* lines 132-140: the step in seconds
Rate ==
    /\ pc = "rate"
    /\ IF RateMultiplier(rate_choice) = 0
       THEN /\ Return(ErrorReturn(ErrorMessage("invalid_rate")))
            /\ UNCHANGED time_step_seconds
       ELSE /\ time_step_seconds' = sampling_interval * RateMultiplier(rate_choice)
            /\ pc' = "duration" /\ ret' = ret
    /\ UNCHANGED <<args, live, num_samples, start_datetime_utc, loop, raised,
                   sgp4_calls, geo>>

\* lines 141-142
Duration ==
    /\ pc = "duration"
    /\ IF IsZeroDuration(requested_time_h_float)
       THEN Return(ErrorReturn(ErrorMessage("zero_length")))
       ELSE pc' = "count" /\ ret' = ret
    /\ UNCHANGED <<args, live, grid, loop, raised, sgp4_calls, geo>>

\* lines 143-144: a step of 0 raises ZeroDivisionError, which nothing catches
Count ==
    /\ pc = "count"
    /\ IF time_step_seconds = 0
       THEN /\ raised' = Some("ZeroDivisionError")
            /\ pc' = "done"
            /\ UNCHANGED num_samples
       ELSE /\ SampleCount(RequestedSeconds(requested_time_h_float),
                           time_step_seconds) <= MaxSamples
            /\ num_samples' = SampleCount(RequestedSeconds(requested_time_h_float),
                                          time_step_seconds)
            /\ pc' = "epoch"
            /\ UNCHANGED raised
    /\ UNCHANGED <<args, live, time_step_seconds, start_datetime_utc, loop,
                   ret, sgp4_calls, geo>>

\* lines 145-178: the start instant, from the element line or the date string
Epoch ==
    /\ pc = "epoch"
    /\ IF start_from_tle_date
       THEN LET e == EpochFromElements(Get(tle1))
            IN  IF e.ok
                THEN /\ start_datetime_utc' = Some(e.at)
                     /\ pc' = "loop" /\ ret' = ret
                ELSE /\ Return(ErrorReturn(ErrorMessage("element_epoch")))
                     /\ UNCHANGED start_datetime_utc
       ELSE LET e == EpochFromDate(start_date_str)
            IN  IF e.status = "ok"
                THEN /\ start_datetime_utc' = Some(e.at)
                     /\ pc' = "loop" /\ ret' = ret
                ELSE /\ Return(ErrorReturn(ErrorMessage(
                            IF e.status = "format" THEN "date_format"
                            ELSE "date_value")))
                     /\ UNCHANGED start_datetime_utc
    /\ UNCHANGED <<args, live, time_step_seconds, num_samples, loop, raised,
                   sgp4_calls, geo>>

\* lines 179-206: one iteration of for i in range(num_samples + 1)
Sample ==
    /\ pc = "loop"
    /\ i <= num_samples
    /\ \E error_code \in {0} \cup ErrCodes, p \in GeoPoints :
         LET current_datetime_sample ==
                 SampleTime(Get(start_datetime_utc), i, time_step_seconds,
                            requested_time_h_float)
             out == SampleOutcome(error_code, p, target_lat, target_lon,
                                  scan_area_size, current_datetime_sample)
         IN  /\ sample_times' = Append(sample_times, current_datetime_sample)
             /\ sgp4_calls' = sgp4_calls + 1
             /\ successful_propagations' =
                    IF error_code = 0 THEN successful_propagations + 1
                    ELSE successful_propagations
             /\ sgp4_error_codes_encountered' =
                    IF error_code = 0 THEN sgp4_error_codes_encountered
                    ELSE Tally(sgp4_error_codes_encountered, error_code)
             /\ covered_orbit_positions_with_time_and_box' =
                    IF IsNone(out.covered)
                    THEN covered_orbit_positions_with_time_and_box
                    ELSE Append(covered_orbit_positions_with_time_and_box,
                                Get(out.covered))
             /\ total_found_times' =
                    IF IsNone(out.covered) THEN total_found_times
                    ELSE total_found_times + 1
             /\ orbit_data_main' = Append(orbit_data_main, out.row)
    /\ i' = i + 1
    /\ UNCHANGED <<args, pc, live, grid, ret, raised, geo>>

\* a mutant: the loop is left as soon as a sample has failed
Finalize_on_failure ==
    /\ pc = "loop"
    /\ i > num_samples \/ DOMAIN sgp4_error_codes_encountered # {}
    /\ Return(FinalReturn(successful_propagations, total_found_times,
                          sgp4_error_codes_encountered, num_samples,
                          orbit_data_main,
                          covered_orbit_positions_with_time_and_box,
                          <<target_lat, target_lon>>, Get(start_datetime_utc),
                          live_sat_pos_geodetic, live_sat_pos_ecef))
    /\ UNCHANGED <<args, live, grid, loop, raised, sgp4_calls, geo>>

\* lines 207-218
Finalize ==
    /\ pc = "loop"
    /\ i > num_samples
    /\ Return(FinalReturn(successful_propagations, total_found_times,
                          sgp4_error_codes_encountered, num_samples,
                          orbit_data_main,
                          covered_orbit_positions_with_time_and_box,
                          <<target_lat, target_lon>>, Get(start_datetime_utc),
                          live_sat_pos_geodetic, live_sat_pos_ecef))
    /\ UNCHANGED <<args, live, grid, loop, raised, sgp4_calls, geo>>

Next ==
    \/ Validate
    \/ Live
    \/ Rate
    \/ Duration
    \/ Count
    \/ Epoch
    \/ Sample
    \/ Finalize

Spec == Init /\ [][Next]_vars

(***************************************************************************)
(* The footprint and coverage functions on their own: the inputs are drawn *)
(* from bounded sets, then get_scanning_square_corners builds the box and  *)
(* is_point_in_scan_area tests the target against it.                      *)
(***************************************************************************)
SatLatValues == {Deg(-90), Deg(-60), 0, Deg(50), Deg(60), Deg(89), 8950,
                 Deg(90), Deg(91)}
SatLonValues == {Deg(-180), -17990, 0, Deg(100), 17990, Deg(180), Deg(181)}
HalfWidthValues == {0, 100, 200}
PointLatValues == {0, Deg(50), 8950}
PointLonValues == {Deg(-180), -17995, 0, 17995, Deg(180)}

InitGeo ==
    /\ tle1 = None /\ tle2 = None /\ start_date_str = DATE_EMPTY
    /\ rate_choice = 1 /\ requested_time_h_float = 0
    /\ start_from_tle_date = FALSE
    /\ scan_area_size = 0 /\ sampling_interval = 1 /\ live_only = FALSE
    /\ pc = "idle"
    /\ RunLocalsInit
    /\ sat_lat \in SatLatValues
    /\ sat_lon \in SatLonValues
    /\ scan_half_width_km \in HalfWidthValues
    /\ target_lat \in PointLatValues
    /\ target_lon \in PointLonValues
    /\ scan_box = <<>>
    /\ in_area = FALSE
    /\ gpc = "start"
    /\ CalIdle
    /\ UiIdle

\* footprints handed to is_point_in_scan_area as they are: plain, across the
\* seam, with min_lat > max_lat, the zero box, of a wrong length, and with
\* an entry that is not a number
BoxValues == {<<-100, 100, -100, 100>>,
              <<-100, 100, 17990, -17990>>,
              <<100, -100, -100, 100>>,
              <<0, 0, 0, 0>>,
              <<0, 0, 0>>,
              <<>>,
              <<-100, 100, -100, 100, 0>>,
              <<NotANumber, 100, -100, 100>>,
              <<-100, 100, -100, NotANumber>>}

GivenFootprint ==
    /\ gpc = "start"
    /\ scan_box' \in BoxValues
    /\ gpc' = "given"
    /\ UNCHANGED <<args, run, sat_lat, sat_lon, scan_half_width_km, in_area,
                   cal, ui>>

BuildFootprint ==
    /\ gpc = "start"
    /\ scan_box' = get_scanning_square_corners(sat_lat, sat_lon,
                                               scan_half_width_km)
    /\ gpc' = "built"
    /\ UNCHANGED <<args, run, sat_lat, sat_lon, scan_half_width_km, in_area,
                   cal, ui>>

TestCoverage ==
    /\ gpc \in {"built", "given"}
    /\ in_area' = is_point_in_scan_area(target_lat, target_lon, scan_box)
    /\ gpc' = IF gpc = "built" THEN "tested" ELSE "checked"
    /\ UNCHANGED <<args, run, sat_lat, sat_lon, scan_half_width_km, scan_box,
                   cal, ui>>

NextGeo ==
    \/ BuildFootprint
    \/ GivenFootprint
    \/ TestCoverage

SpecGeo == InitGeo /\ [][NextGeo]_vars

(***************************************************************************)
(* get_day_of_year on its own: a calendar date is drawn, then the function *)
(* is applied to it.                                                       *)
(***************************************************************************)
YearValues == {1900, 2000, 2023, 2024}

InitDay ==
    /\ tle1 = None /\ tle2 = None /\ start_date_str = DATE_EMPTY
    /\ rate_choice = 1 /\ requested_time_h_float = 0
    /\ start_from_tle_date = FALSE
    /\ target_lat = 0 /\ target_lon = 0
    /\ scan_area_size = 0 /\ sampling_interval = 1 /\ live_only = FALSE
    /\ pc = "idle"
    /\ RunLocalsInit
    /\ GeoIdle
    /\ date_year \in YearValues
    /\ date_month \in 1..12
    /\ date_day \in 1..DaysInMonth(date_year, date_month)
    /\ ordinal = 0
    /\ cpc = "start"
    /\ UiIdle

DayOfYear ==
    /\ cpc = "start"
    /\ ordinal' = get_day_of_year(date_day, date_month, date_year)
    /\ cpc' = "done"
    /\ UNCHANGED <<args, run, sat_lat, sat_lon, scan_half_width_km, scan_box,
                   in_area, gpc, date_day, date_month, date_year, ui>>

NextDay ==
    \/ DayOfYear

SpecDay == InitDay /\ [][NextDay]_vars

(***************************************************************************)
(* The window's live polling (frontend.py): the live-updates checkbox, the *)
(* periodic timer and the Visualize button.  tle1, tle2,                   *)
(* live_sat_pos_geodetic and live_sat_pos_ecef are here the attributes of  *)
(* the window.  A call of calculate_orbit_data is the choice of one of its *)
(* outcomes.                                                               *)
(***************************************************************************)
MaxEngineCalls == 4

\* what a call returns as the live snapshot: None when the lines do not
\* parse, else the propagated point or the fallback
EngineLiveResults ==
    {None}
    \cup {Some([geodetic |-> <<q.lat, q.lon, q.alt, now>>,
                ecef |-> geodetic_to_cartesian_ecef(q.lat, q.lon, q.alt)]) :
              q \in LivePoints, now \in ClockValues}
    \cup {Some([geodetic |-> <<0, 0, 0, now>>, ecef |-> <<0, 0, 7015>>]) :
              now \in ClockValues}

\* a mutant: the stored lines are not checked before the engine is called
update_live_position_unguarded(t1, t2, lgeo, lecef, result) ==
    IF IsNone(result)
    THEN [geodetic |-> lgeo, ecef |-> lecef, calls |-> 1]
    ELSE [geodetic |-> Some(Get(result).geodetic),
          ecef |-> Some(Get(result).ecef), calls |-> 1]

\* update_live_position: the stored snapshot after it and the number of
\* engine calls it made, result being what a call returns
update_live_position(t1, t2, lgeo, lecef, result) ==
    IF ~ElementsValid(t1, t2)
    THEN [geodetic |-> lgeo, ecef |-> lecef, calls |-> 0]
    ELSE IF IsNone(result)
    THEN [geodetic |-> lgeo, ecef |-> lecef, calls |-> 1]
    ELSE [geodetic |-> Some(Get(result).geodetic),
          ecef |-> Some(Get(result).ecef), calls |-> 1]

\* what the window's handlers leave alone
ui_frame == <<start_date_str, rate_choice, requested_time_h_float,
              start_from_tle_date, target_lat, target_lon, scan_area_size,
              sampling_interval, live_only, pc, current_utc_dt,
              error_code_live, grid, loop, ret, raised, sgp4_calls,
              sat_lat, sat_lon, scan_half_width_km, scan_box, in_area, gpc,
              cal>>

\* __init__ and create_input_panel: no lines stored, the box checked
\* before its signal is connected, the timer created and not started
InitUI ==
    /\ tle1 = None /\ tle2 = None /\ start_date_str = DATE_EMPTY
    /\ rate_choice = 1 /\ requested_time_h_float = 0
    /\ start_from_tle_date = FALSE
    /\ target_lat = 0 /\ target_lon = 0
    /\ scan_area_size = 200 /\ sampling_interval = 1 /\ live_only = FALSE
    /\ pc = "idle"
    /\ RunLocalsInit
    /\ GeoIdle
    /\ CalIdle
    /\ checkbox_enable_live_updates = TRUE
    /\ live_update_timer = FALSE
    /\ map_initialized = FALSE
    /\ engine_calls = 0
    /\ last_handler = "__init__"

\* the user toggles the box: stateChanged calls toggle_live_updates, whose
\* setChecked(False) calls it once more with the unchecked state
toggle_live_updates ==
    /\ \E result \in EngineLiveResults :
         LET poll == update_live_position(tle1, tle2, live_sat_pos_geodetic,
                                          live_sat_pos_ecef, result)
         IN  IF ~checkbox_enable_live_updates /\ ElementsValid(tle1, tle2)
             THEN /\ engine_calls + poll.calls <= MaxEngineCalls
                  /\ checkbox_enable_live_updates' = TRUE
                  /\ live_update_timer' = TRUE
                  /\ live_sat_pos_geodetic' = poll.geodetic
                  /\ live_sat_pos_ecef' = poll.ecef
                  /\ engine_calls' = engine_calls + poll.calls
             ELSE /\ checkbox_enable_live_updates' = FALSE
                  /\ live_update_timer' = FALSE
                  /\ UNCHANGED <<live_sat_pos_geodetic, live_sat_pos_ecef,
                                 engine_calls>>
    /\ last_handler' = "toggle_live_updates"
    /\ UNCHANGED <<tle1, tle2, map_initialized, ui_frame>>

\* the timer's timeout calls update_live_position
TimerTick ==
    /\ live_update_timer
    /\ \E result \in EngineLiveResults :
         LET poll == update_live_position(tle1, tle2, live_sat_pos_geodetic,
                                          live_sat_pos_ecef, result)
         IN  /\ engine_calls + poll.calls <= MaxEngineCalls
             /\ live_sat_pos_geodetic' = poll.geodetic
             /\ live_sat_pos_ecef' = poll.ecef
             /\ engine_calls' = engine_calls + poll.calls
    /\ last_handler' = "update_live_position"
    /\ UNCHANGED <<tle1, tle2, checkbox_enable_live_updates,
                   live_update_timer, map_initialized, ui_frame>>

\* how a click on Visualize goes: a field is rejected before the engine is
\* called, the engine raises, it returns an "Error" message, or it succeeds
ClickOutcomes == {"rejected", "raised", "error", "success"}

\* on_visualize_click: t1 and t2 are the stripped texts of the two line
\* fields, snapshot the live pair of a successful run, map_loaded whether
\* the map was generated, result what the nested live-only call returns
on_visualize_click ==
    /\ \E t1 \in Tle1Values, t2 \in Tle2Values, outcome \in ClickOutcomes,
          snapshot \in EngineLiveResults \ {None}, map_loaded \in BOOLEAN,
          result \in EngineLiveResults :
         LET poll == update_live_position(t1, t2, Some(Get(snapshot).geodetic),
                                          Some(Get(snapshot).ecef), result)
         IN  /\ outcome = "success" => ElementsValid(t1, t2)
             /\ tle1' = t1
             /\ tle2' = t2
             /\ CASE outcome = "rejected" ->
                       UNCHANGED <<live_sat_pos_geodetic, live_sat_pos_ecef,
                                   map_initialized, live_update_timer,
                                   engine_calls>>
                  [] outcome = "raised" ->
                       /\ engine_calls < MaxEngineCalls
                       /\ engine_calls' = engine_calls + 1
                       /\ UNCHANGED <<live_sat_pos_geodetic,
                                      live_sat_pos_ecef, map_initialized,
                                      live_update_timer>>
                  [] outcome = "error" ->
                       /\ engine_calls < MaxEngineCalls
                       /\ engine_calls' = engine_calls + 1
                       /\ live_sat_pos_geodetic' = None
                       /\ live_sat_pos_ecef' = None
                       /\ UNCHANGED <<map_initialized, live_update_timer>>
                  [] outcome = "success" /\ ~map_loaded ->
                       /\ engine_calls < MaxEngineCalls
                       /\ engine_calls' = engine_calls + 1
                       /\ live_sat_pos_geodetic' = Some(Get(snapshot).geodetic)
                       /\ live_sat_pos_ecef' = Some(Get(snapshot).ecef)
                       /\ map_initialized' = FALSE
                       /\ live_update_timer' =
                              (live_update_timer \/ checkbox_enable_live_updates)
                  [] outcome = "success" /\ map_loaded ->
                       /\ engine_calls + 1 + poll.calls <= MaxEngineCalls
                       /\ engine_calls' = engine_calls + 1 + poll.calls
                       /\ live_sat_pos_geodetic' = poll.geodetic
                       /\ live_sat_pos_ecef' = poll.ecef
                       /\ map_initialized' = TRUE
                       /\ live_update_timer' =
                              (live_update_timer \/ checkbox_enable_live_updates)
    /\ last_handler' = "on_visualize_click"
    /\ UNCHANGED <<checkbox_enable_live_updates, ui_frame>>

NextUI ==
    \/ toggle_live_updates
    \/ TimerTick
    \/ on_visualize_click

SpecUI == InitUI /\ [][NextUI]_vars

(***************************************************************************)
(* Properties.                                                             *)
(***************************************************************************)
Returned == pc = "done" /\ IsNone(raised)
Message == Get(ret.message)
\* the run got past epoch resolution
ReachedLoop == pc \in {"loop", "done"} /\ ~IsNone(start_datetime_utc)
\* rows of the full sequence whose status code is c
RowsWithCode(rows, c) == {k \in 1..Len(rows) : rows[k][4] = c}

\* C1: in element-epoch mode the start instant is January 1st of the resolved
\* year plus (d - 1) whole days plus the fraction f of a day, for the
\* two-digit year and the day-of-year d.f of line 1; year 24 with day 1.5 is
\* 2024-01-01 12:00:00 UTC; and that instant is the timestamp of sample 0.
C1_EpochFromElementLine ==
    (ReachedLoop /\ start_from_tle_date) =>
        LET yy == PyInt(Get(tle1).epoch_year).val
            v == PyFloat(Get(tle1).epoch_day).val
            d == v \div 100000
            f == v % 100000
            year == yy + (IF yy < 57 THEN 2000 ELSE 1900)
        IN  /\ Get(start_datetime_utc) =
                   Instant(year, 1, 1, 0) + (d - 1) * 86400 + (f * 864) \div 1000
            /\ tle1 = TLE1_2024 =>
                   Get(start_datetime_utc) = Instant(2024, 1, 1, 12 * 3600)
            /\ sample_times # <<>> => sample_times[1] = Get(start_datetime_utc)

\* C2 (as stated): every invocation with a requested duration of exactly 0
\* fails with the zero-length configuration error and returns no sequence.
C2_ZeroDurationAlwaysRejected ==
    (pc = "done" /\ requested_time_h_float = 0) =>
        /\ IsNone(raised)
        /\ ret = ErrorReturn(ErrorMessage("zero_length"))

\* C2 (amended): an invocation with duration 0 never returns a sample
\* sequence and never ends in an exception; unless it is live-only it returns
\* an error message, which is the zero-length configuration error whenever
\* the elements were accepted and the rate selector is 1, 2 or 3; a
\* live-only one returns the live snapshot alone, with no message.
C2_ZeroDurationRejected ==
    (pc = "done" /\ requested_time_h_float = 0) =>
        /\ IsNone(raised)
        /\ IsNone(ret.orbit_data_main) /\ IsNone(ret.covered)
        /\ ~live_only => (~IsNone(ret.message) /\ Message.error)
        /\ (~live_only /\ ~IsNone(live_sat_pos_geodetic)
              /\ rate_choice \in {1, 2, 3}) =>
               ret = ErrorReturn(ErrorMessage("zero_length"))
        /\ (live_only /\ ~IsNone(live_sat_pos_geodetic)) =>
               /\ IsNone(ret.message)
               /\ ret.live_sat_pos_geodetic = live_sat_pos_geodetic

C2_Witness ==
    /\ pc = "done" /\ requested_time_h_float = 0 /\ ~live_only
    /\ ret = ErrorReturn(ErrorMessage("zero_length"))
    /\ sgp4_calls = 1

\* C3: in a run that reaches the sample loop with step S seconds and
\* duration D, num_samples is ceil(|D * 3600| / S), and the full sequence
\* returned on success has num_samples + 1 rows, the first one evaluated at
\* the start instant; 24 hours at 60-second steps give 24 * 60 + 1 rows.
C3_SampleCount ==
    LET S == time_step_seconds
        A == Abs(requested_time_h_float) * 60
        n == num_samples
    IN  /\ ReachedLoop =>
            /\ S > 0 => (n * S >= A /\ (n - 1) * S < A)
            /\ S < 0 => (n * S <= A /\ (n - 1) * S > A)
            /\ (Returned /\ ~IsNone(ret.orbit_data_main)) =>
                   /\ Len(Get(ret.orbit_data_main)) = n + 1
                   /\ Len(sample_times) = n + 1
                   /\ sample_times[1] = Get(start_datetime_utc)
        /\ SampleCount(RequestedSeconds(24 * 60), 60) + 1 = 24 * 60 + 1

C3_Witness ==
    /\ Returned /\ ~IsNone(ret.orbit_data_main)
    /\ time_step_seconds = 45 /\ requested_time_h_float = 2
    /\ Len(Get(ret.orbit_data_main)) = 4

\* C4: a run in which at least one sample propagated reports success (no
\* error prefix) and returns the full and the coverage sequence, however
\* many samples failed; and the message then carries, for every failure
\* code that occurred, the number of samples that failed with it.
C4_PartialFailure ==
    (Returned /\ ReachedLoop /\ successful_propagations > 0) =>
        /\ ~IsNone(ret.message) /\ ~Message.error /\ Message.kind = "success"
        /\ ret.orbit_data_main = Some(orbit_data_main)
        /\ ret.covered = Some(covered_orbit_positions_with_time_and_box)
        /\ Message.points = Cardinality(RowsWithCode(orbit_data_main, 0))
        /\ \A c \in ErrCodes :
             LET failed == Cardinality(RowsWithCode(orbit_data_main, c))
             IN  IF failed = 0 THEN c \notin DOMAIN Message.codes
                 ELSE c \in DOMAIN Message.codes /\ Message.codes[c] = failed

C4_Witness ==
    /\ Returned /\ ReachedLoop
    /\ successful_propagations = 1
    /\ Cardinality(RowsWithCode(orbit_data_main, 1)) = 3
    /\ Message.kind = "success" /\ Message.codes[1] = 3

\* C5: every entry of the coverage subsequence, while it is built and when
\* it is returned, satisfies is_point_in_scan_area for the run's target and
\* the footprint recorded in that entry.
C5_CoverageEntriesCovered ==
    /\ \A k \in 1..Len(covered_orbit_positions_with_time_and_box) :
         is_point_in_scan_area(target_lat, target_lon,
                               covered_orbit_positions_with_time_and_box[k][5])
    /\ (pc = "done" /\ ~IsNone(ret.covered)) =>
         \A k \in 1..Len(Get(ret.covered)) :
           is_point_in_scan_area(Get(ret.target_point)[1],
                                 Get(ret.target_point)[2],
                                 Get(ret.covered)[k][5])

C5_Witness ==
    /\ Returned /\ ~IsNone(ret.covered)
    /\ Len(Get(ret.covered)) >= 1
    /\ Len(Get(ret.covered)) < Len(Get(ret.orbit_data_main))
    /\ \E k \in 1..Len(orbit_data_main) :
         orbit_data_main[k][4] = 0 /\ orbit_data_main[k][5] = 0

\* the sub-satellite point passes the range check of the footprint builder
ValidSubPoint ==
    /\ Deg(-90) <= sat_lat /\ sat_lat <= Deg(90)
    /\ Deg(-180) <= sat_lon /\ sat_lon <= Deg(180)

\* the longitudinal half-width of the footprint under construction
HalfWidthLon == lon_change(sat_lat, scan_half_width_km)

\* the sub-satellite longitude is closer to the +180 seam than the
\* half-width, the footprint being narrower than the parallel it lies on
NearSeam ==
    /\ ValidSubPoint
    /\ HalfWidthLon < Deg(180)
    /\ Deg(180) - sat_lon < HalfWidthLon

C7_FootprintInvariant ==
    (gpc \in {"built", "tested"} /\ ValidSubPoint) =>
        /\ scan_box[1] <= scan_box[2]
        /\ Deg(-90) <= scan_box[1] /\ scan_box[2] <= Deg(90)
        /\ \A k \in {3, 4} : Deg(-180) <= scan_box[k] /\ scan_box[k] < Deg(180)

\* C8: for a non-polar sub-satellite point the footprint is symmetric in
\* latitude: max_lat - lat = lat - min_lat = the latitude delta of the
\* half-width, whatever the longitude.
C8_FootprintSymmetry ==
    (gpc \in {"built", "tested"} /\ ValidSubPoint /\ Abs(sat_lat) # Deg(90)) =>
        /\ scan_box[2] - sat_lat = sat_lat - scan_box[1]
        /\ scan_box[2] - sat_lat = lat_change(scan_half_width_km)

C8_Witness ==
    /\ gpc = "built" /\ sat_lat = Deg(50) /\ sat_lon = 17990
    /\ scan_half_width_km = 200
    /\ scan_box[2] - sat_lat = 179 /\ sat_lat - scan_box[1] = 179

\* C10: if either element line is missing or is not 69 characters long, the
\* propagator is never invoked, the run stops at validation, and it returns
\* the invalid-elements error with no sequence and no snapshot.
C10_ElementValidationFailFast ==
    (\/ IsNone(tle1) \/ IsNone(tle2)
     \/ Get(tle1).length # 69 \/ Get(tle2).length # 69) =>
        /\ sgp4_calls = 0
        /\ pc \in {"validate", "done"}
        /\ IsNone(raised)
        /\ pc = "done" => ret = ErrorReturn(ErrorMessage("invalid_elements"))

C10_Witness ==
    /\ pc = "done" /\ tle1 = TLE1_2024
    /\ ~IsNone(tle2) /\ Get(tle2).length = 70
    /\ Message.kind = "invalid_elements" /\ sgp4_calls = 0

\* C11: a run that reaches finalization with no successfully propagated
\* sample returns the propagation-failure message, which names every
\* distinct failure code that occurred with the number of samples that failed
\* with it, and returns no sequence; and the propagation-failure message is
\* returned by no other run.
C11_TotalFailure ==
    /\ (Returned /\ ReachedLoop /\ successful_propagations = 0) =>
         /\ ~IsNone(ret.message) /\ Message.error
         /\ Message.kind = "propagation"
         /\ IsNone(ret.orbit_data_main) /\ IsNone(ret.covered)
         /\ \A c \in ErrCodes :
              LET failed == Cardinality(RowsWithCode(orbit_data_main, c))
              IN  IF failed = 0 THEN c \notin DOMAIN Message.codes
                  ELSE c \in DOMAIN Message.codes /\ Message.codes[c] = failed
    /\ (Returned /\ ~IsNone(ret.message) /\ Message.kind = "propagation") =>
         (ReachedLoop /\ successful_propagations = 0)

\* C12: when the propagator gives a non-zero status at the current instant
\* the run goes on, and the snapshot is the fixed fallback point of latitude
\* 0, longitude 0 and an altitude above the ellipsoid, the Earth-fixed form
\* being that same point; a live-only run returns it with no error message.
C12_LiveFallback ==
    (pc \notin {"validate", "live"} /\ error_code_live # 0) =>
        LET g == Get(live_sat_pos_geodetic)
            e == Get(live_sat_pos_ecef)
        IN  /\ g[1] = 0 /\ g[2] = 0 /\ g[3] > 0
            /\ e = geodetic_to_cartesian_ecef(0, 0, g[3])
            /\ live_only =>
                 /\ pc = "done" /\ IsNone(raised) /\ IsNone(ret.message)
                 /\ ret.live_sat_pos_geodetic = live_sat_pos_geodetic
                 /\ ret.live_sat_pos_ecef = live_sat_pos_ecef

\* C13: a live-only run whose element lines are accepted returns the live
\* snapshot and nothing else (no message, no sequence, no target, no start
\* instant), calls the propagator exactly once, resolves no epoch and takes
\* no sample, whatever the other arguments are; a live-only run never
\* enters a later stage.
C13_LiveOnly ==
    /\ live_only => pc \in {"validate", "live", "done"}
    /\ (live_only /\ pc = "done" /\ ElementsValid(tle1, tle2)
          /\ ~(~IsNone(ret.message) /\ Message.kind = "element_parse")) =>
         /\ IsNone(raised)
         /\ ~IsNone(ret.live_sat_pos_geodetic)
         /\ ~IsNone(ret.live_sat_pos_ecef)
         /\ ret = [NoReturn EXCEPT
                     !.live_sat_pos_geodetic = live_sat_pos_geodetic,
                     !.live_sat_pos_ecef = live_sat_pos_ecef]
         /\ sgp4_calls = 1
         /\ IsNone(start_datetime_utc)
         /\ i = 0 /\ sample_times = <<>> /\ orbit_data_main = <<>>

C13_Witness ==
    /\ live_only /\ pc = "done" /\ error_code_live = 0
    /\ rate_choice = 0 /\ requested_time_h_float = 0 /\ sampling_interval = 0
    /\ start_date_str = DATE_SHORT /\ ~start_from_tle_date
    /\ IsNone(ret.message) /\ sgp4_calls = 1
    /\ Get(ret.live_sat_pos_geodetic)[2] = Deg(90)

\* C14: every run ends by returning, never by an exception, whatever the
\* arguments are, a sampling interval of 0 or below included; a run that
\* returns no sequence and is not live-only returns an error message naming
\* the stage that failed; and a run with a non-positive sampling interval is
\* not reported as a propagation failure.
C14_FailuresAreMessages ==
    pc = "done" =>
        /\ IsNone(raised)
        /\ (~live_only /\ IsNone(ret.orbit_data_main)) =>
             /\ ~IsNone(ret.message) /\ Message.error
             /\ Message.kind \in {"invalid_elements", "element_parse",
                                  "invalid_rate", "zero_length",
                                  "element_epoch", "date_format",
                                  "date_value", "propagation"}
        /\ (sampling_interval <= 0 /\ ~IsNone(ret.message)) =>
             Message.kind # "propagation"

\* exactly two digits, a dash, two digits, a dash, four digits
ExactDateFormat(s) ==
    /\ Len(s) = 10
    /\ \A k \in {1, 2, 4, 5, 7, 8, 9, 10} : s[k] \in Digits
    /\ s[3] = "-" /\ s[6] = "-"

\* the run went through epoch resolution: it is in the loop, or it returned
\* something other than the error of an earlier check
EpochStageDone ==
    \/ pc = "loop"
    \/ /\ Returned /\ ~live_only /\ ~IsNone(ret.message)
       /\ Message.kind \notin {"invalid_elements", "element_parse",
                               "invalid_rate", "zero_length"}

\* C15: in explicit-date mode, once the epoch is resolved, a start-date
\* string that is not exactly DD-MM-YYYY has ended the run with the
\* date-format error before any sample; a string in that format has given
\* midnight UTC of that date as the start instant and the timestamp of
\* sample 0, or, when it names no calendar date, has ended the run with the
\* date-value error before any sample.
C15_ExplicitDate ==
    (EpochStageDone /\ ~start_from_tle_date) =>
        LET s == start_date_str IN
        IF ~ExactDateFormat(s)
        THEN /\ pc = "done"
             /\ ret = ErrorReturn(ErrorMessage("date_format"))
             /\ sample_times = <<>> /\ orbit_data_main = <<>>
        ELSE LET day == DigitsVal(SubSeq(s, 1, 2))
                 month == DigitsVal(SubSeq(s, 4, 5))
                 year == DigitsVal(SubSeq(s, 7, 10))
             IN  IF ValidDate(year, month, day)
                 THEN /\ start_datetime_utc =
                             Some(Instant(year, month, day, 0))
                      /\ sample_times # <<>> =>
                             sample_times[1] = Instant(year, month, day, 0)
                 ELSE /\ pc = "done"
                      /\ ret = ErrorReturn(ErrorMessage("date_value"))
                      /\ sample_times = <<>> /\ orbit_data_main = <<>>

\* the element lines passed the length check and the parser
ElementsAccepted ==
    /\ ElementsValid(tle1, tle2)
    /\ ~(~IsNone(ret.message) /\ Message.kind = "element_parse")

\* the error of epoch resolution for the run's arguments, "" if it succeeds
EpochError ==
    IF start_from_tle_date
    THEN IF EpochFromElements(Get(tle1)).ok THEN "" ELSE "element_epoch"
    ELSE LET e == EpochFromDate(start_date_str)
         IN  IF e.status = "ok" THEN ""
             ELSE IF e.status = "format" THEN "date_format" ELSE "date_value"

\* C16 (as stated): the stages run in the order validate elements, resolve
\* epoch, live position, step size, sample count, loop, finalize, so a run
\* with accepted elements whose epoch cannot be resolved returns the epoch
\* error, whatever the rate selector and the duration are; otherwise an
\* invalid rate selector is reported before a zero duration.
C16_StageOrderAsStated ==
    (pc = "done" /\ ElementsAccepted) =>
        IF EpochError # ""
        THEN ret = ErrorReturn(ErrorMessage(EpochError))
        ELSE (rate_choice \notin {1, 2, 3} /\ ~live_only) =>
                 ret = ErrorReturn(ErrorMessage("invalid_rate"))

\* C16 (amended): the stages run in the order validate elements, live
\* position (with the live-only return), step size, zero-duration check,
\* sample count, resolve epoch, loop, finalize, and a run ends at the
\* earliest stage of this order that fails: invalid elements, then a parse
\* failure, then the live-only return, then an invalid rate selector, then a
\* zero duration, then the division by a zero step, then the epoch error;
\* only a run that passes all of them ends with success or with the
\* propagation failure.
C16_StageOrder ==
    pc = "done" =>
        IF ~ElementsValid(tle1, tle2)
        THEN ret = ErrorReturn(ErrorMessage("invalid_elements"))
        ELSE IF ~ElementsAccepted THEN sgp4_calls = 0
        ELSE IF live_only THEN IsNone(ret.message) /\ sgp4_calls = 1
        ELSE IF rate_choice \notin {1, 2, 3}
        THEN ret = ErrorReturn(ErrorMessage("invalid_rate"))
        ELSE IF requested_time_h_float = 0
        THEN ret = ErrorReturn(ErrorMessage("zero_length"))
        ELSE IF sampling_interval = 0
        THEN ~IsNone(raised) /\ ret = NoReturn
        ELSE IF EpochError # ""
        THEN ret = ErrorReturn(ErrorMessage(EpochError)) /\ sgp4_calls = 1
        ELSE /\ IsNone(raised)
             /\ Message.kind \in {"success", "propagation"}

C16_Witness ==
    /\ pc = "done" /\ ~live_only /\ ElementsAccepted
    /\ ~start_from_tle_date /\ start_date_str = DATE_SHORT
    /\ rate_choice = 2 /\ requested_time_h_float = 0
    /\ ret = ErrorReturn(ErrorMessage("zero_length"))

\* C17: a failed sample never ends the loop: while the loop runs, every
\* index below i has a row, and the run is finalized only when all
\* num_samples + 1 indices have one, failures included; the row of a failed
\* sample holds its status code with zeros for latitude, longitude,
\* altitude and footprint and covered = 0, and no entry of the coverage
\* subsequence belongs to a failed sample.
C17_FailedSampleDoesNotHalt ==
    ReachedLoop =>
        /\ pc = "loop" => (Len(orbit_data_main) = i /\ Len(sample_times) = i)
        /\ pc = "done" =>
             Len(orbit_data_main) =
                 (IF num_samples >= 0 THEN num_samples + 1 ELSE 0)
        /\ \A k \in 1..Len(orbit_data_main) :
             LET row == orbit_data_main[k] IN
             row[4] # 0 => /\ row[4] \in ErrCodes
                           /\ row = <<0, 0, 0, row[4], 0, 0, 0, 0, 0>>
        /\ \A j \in 1..Len(covered_orbit_positions_with_time_and_box) :
             \E k \in 1..Len(orbit_data_main) :
               /\ sample_times[k] =
                      covered_orbit_positions_with_time_and_box[j][4]
               /\ orbit_data_main[k][4] = 0

C17_Witness ==
    /\ Returned /\ ReachedLoop /\ num_samples = 3
    /\ orbit_data_main[1][4] = 1 /\ orbit_data_main[2][4] = 0
    /\ orbit_data_main[3][4] = 2 /\ orbit_data_main[4][5] = 1
    /\ Len(covered_orbit_positions_with_time_and_box) = 1

\* the indices of the rows whose covered flag is 1, in order
FlaggedRows(rows) ==
    SelectSeq([k \in 1..Len(rows) |-> k], LAMBDA k : rows[k][5] = 1)

\* C18: the coverage subsequence is the order-preserving filter of the full
\* sequence by the covered flag: its k-th entry has the latitude, longitude,
\* altitude and footprint of the k-th row whose flag is 1 and the timestamp
\* of that sample, its length is the number of flagged rows, and that
\* number is the scan count of the success message.
C18_CoverageIsFilter ==
    LET rows == orbit_data_main
        cov == covered_orbit_positions_with_time_and_box
        idx == FlaggedRows(rows)
    IN  /\ Len(cov) = Len(idx)
        /\ Len(cov) = Cardinality({k \in 1..Len(rows) : rows[k][5] = 1})
        /\ total_found_times = Len(cov)
        /\ \A j \in 1..Len(cov) :
             LET row == rows[idx[j]]
             IN  cov[j] = <<row[1], row[2], row[3], sample_times[idx[j]],
                            <<row[6], row[7], row[8], row[9]>>>>
        /\ (Returned /\ ~IsNone(ret.orbit_data_main)) =>
             /\ ret.orbit_data_main = Some(rows)
             /\ ret.covered = Some(cov)
             /\ Message.kind = "success"
             /\ Message.scans = Len(cov)

C18_Witness ==
    /\ Returned /\ ~IsNone(ret.covered) /\ Len(orbit_data_main) = 4
    /\ orbit_data_main[1][5] = 1
    /\ orbit_data_main[2][4] = 0 /\ orbit_data_main[2][5] = 0
    /\ orbit_data_main[3][4] # 0
    /\ orbit_data_main[4][5] = 1
    /\ orbit_data_main[4][2] # orbit_data_main[1][2]
    /\ Len(Get(ret.covered)) = 2 /\ Message.scans = 2
    /\ Get(ret.covered)[2][2] = orbit_data_main[4][2]

\* C19: sample k (from 0) is evaluated at start + k * step for a positive
\* duration and at start - k * step for a negative one; the timestamps of
\* the samples, and of the coverage entries, are strictly increasing for a
\* positive duration and strictly decreasing for a negative one; rows are
\* appended in index order, one per timestamp; and the direction is that
\* of the sign of the duration, whatever the other arguments are.
C19_SampleTimes ==
    ReachedLoop =>
        LET start == Get(start_datetime_utc)
            S == time_step_seconds
            D == requested_time_h_float
            n == Len(sample_times)
        IN  /\ Len(orbit_data_main) = n
            /\ \A k \in 1..n :
                 /\ D > 0 => sample_times[k] = start + (k - 1) * S
                 /\ D < 0 => sample_times[k] = start - (k - 1) * S
            /\ \A k \in 1..(n - 1) :
                 /\ D > 0 => sample_times[k] < sample_times[k + 1]
                 /\ D < 0 => sample_times[k] > sample_times[k + 1]
            /\ \A j \in 1..Len(covered_orbit_positions_with_time_and_box) :
                 \A k \in 1..(j - 1) :
                   LET tj == covered_orbit_positions_with_time_and_box[j][4]
                       tk == covered_orbit_positions_with_time_and_box[k][4]
                   IN  /\ D > 0 => tk < tj
                       /\ D < 0 => tk > tj

C19_Witness ==
    /\ Returned /\ ReachedLoop /\ requested_time_h_float = -1
    /\ time_step_seconds = 45 /\ Len(sample_times) = 3
    /\ sample_times[3] = Get(start_datetime_utc) - 90
    /\ sample_times[1] > sample_times[2] /\ sample_times[2] > sample_times[3]

\* C20: for any target and any footprint, is_point_in_scan_area is true
\* exactly when the footprint is four numbers (min_lat, max_lat, min_lon,
\* max_lon) with min_lat <= target_lat <= max_lat and either
\* min_lon <= max_lon and min_lon <= target_lon <= max_lon, or
\* min_lon > max_lon and (min_lon <= target_lon <= 180 or
\* -180 <= target_lon <= max_lon); in every other case, a footprint of a
\* wrong length or with a non-number included, it is false.
C20_IsCovered ==
    gpc \in {"tested", "checked"} =>
        LET wellformed == /\ Len(scan_box) = 4
                          /\ \A k \in 1..4 : scan_box[k] # NotANumber
        IN  /\ ~wellformed => ~in_area
            /\ wellformed =>
                 LET min_lat == scan_box[1]
                     max_lat == scan_box[2]
                     min_lon == scan_box[3]
                     max_lon == scan_box[4]
                 IN  in_area <=>
                       /\ min_lat <= target_lat /\ target_lat <= max_lat
                       /\ \/ /\ min_lon <= max_lon
                             /\ min_lon <= target_lon /\ target_lon <= max_lon
                          \/ /\ min_lon > max_lon
                             /\ \/ min_lon <= target_lon /\ target_lon <= Deg(180)
                                \/ Deg(-180) <= target_lon /\ target_lon <= max_lon

C20_Witness ==
    /\ gpc = "checked" /\ scan_box = <<-100, 100, 17990, -17990>>
    /\ target_lat = 0 /\ target_lon = -17995 /\ in_area

\* the coordinates of a row pass the range check of the footprint builder
ValidRowPoint(row) ==
    /\ Deg(-90) <= row[1] /\ row[1] <= Deg(90)
    /\ Deg(-180) <= row[2] /\ row[2] <= Deg(180)

\* C21: get_scanning_square_corners gives the all-zero box for a latitude
\* outside [-90, 90] or a longitude outside [-180, 180]; in a run, a sample
\* propagated to such coordinates gets the all-zero box in its row, no
\* exception ends the loop, and the samples after it are still evaluated,
\* all num_samples + 1 of them having a row at the end.
C21_InvalidCoordinatesDegrade ==
    /\ \A lat \in {Deg(-91), Deg(91)}, lon \in {Deg(-180), 0, Deg(180)} :
         get_scanning_square_corners(lat, lon, 100) = ZeroBox
    /\ \A lat \in {Deg(-90), 0, Deg(90)}, lon \in {Deg(-181), Deg(181)} :
         get_scanning_square_corners(lat, lon, 100) = ZeroBox
    /\ ReachedLoop =>
         /\ IsNone(raised)
         /\ \A k \in 1..Len(orbit_data_main) :
              LET row == orbit_data_main[k] IN
              (row[4] = 0 /\ ~ValidRowPoint(row)) =>
                  <<row[6], row[7], row[8], row[9]>> = ZeroBox
         /\ pc = "loop" => Len(orbit_data_main) = i
         /\ pc = "done" => Len(orbit_data_main) = num_samples + 1
                           \/ num_samples < 0

C21_Witness ==
    /\ Returned /\ ReachedLoop /\ Len(orbit_data_main) = 3
    /\ orbit_data_main[1][1] = Deg(91) /\ orbit_data_main[1][4] = 0
    /\ <<orbit_data_main[1][6], orbit_data_main[1][7],
         orbit_data_main[1][8], orbit_data_main[1][9]>> = ZeroBox
    /\ orbit_data_main[2][1] = Deg(50) /\ orbit_data_main[2][6] # 0
    /\ orbit_data_main[3][4] = 0

\* C22: once computed, the live snapshot is a function of the clock reading
\* and of what the propagator gave for it alone: the propagated point at the
\* clock reading, or the fallback, in geodetic and in Earth-fixed form,
\* whatever the start date, epoch mode, rate selector, interval, duration,
\* target and footprint size are and wherever the run stands; and every run
\* that returns success returns that snapshot in both forms.
C22_LiveIndependent ==
    /\ sgp4_calls >= 1 =>
         /\ current_utc_dt \in ClockValues
         /\ IF error_code_live = 0
            THEN \E p \in LivePoints :
                   /\ live_sat_pos_geodetic =
                          Some(<<p.lat, p.lon, p.alt, current_utc_dt>>)
                   /\ live_sat_pos_ecef =
                          Some(geodetic_to_cartesian_ecef(p.lat, p.lon, p.alt))
            ELSE /\ live_sat_pos_geodetic = Some(<<0, 0, 0, current_utc_dt>>)
                 /\ live_sat_pos_ecef = Some(<<0, 0, 7015>>)
    /\ (Returned /\ ~IsNone(ret.message) /\ Message.kind = "success") =>
         /\ ~IsNone(ret.live_sat_pos_geodetic)
         /\ ~IsNone(ret.live_sat_pos_ecef)
         /\ ret.live_sat_pos_geodetic = live_sat_pos_geodetic
         /\ ret.live_sat_pos_ecef = live_sat_pos_ecef

C22_Witness ==
    /\ Returned /\ ~IsNone(ret.message) /\ Message.kind = "success"
    /\ start_from_tle_date /\ rate_choice = 2 /\ requested_time_h_float = -1
    /\ target_lat = Deg(50) /\ error_code_live = 0
    /\ Get(ret.live_sat_pos_geodetic) =
           <<0, Deg(90), 400, Instant(2026, 11, 4, 0)>>
    /\ Get(ret.live_sat_pos_ecef) = <<0, 6778, 0>>

\* C23: for a valid calendar date get_day_of_year gives the 1-based ordinal
\* of the date in its year: the month prefix sum plus the day, plus 1 exactly
\* when the month is March or later and the year is divisible by 4 and (not
\* by 100, or by 400); 1 January gives 1, 31 December gives 365 or 366, and
\* the next date of the same year gives one more.
C23_DayOfYear ==
    cpc = "done" =>
        LET leap == date_year % 4 = 0
                      /\ (date_year % 100 # 0 \/ date_year % 400 = 0)
            prefix == <<0, 31, 59, 90, 120, 151, 181, 212, 243, 273, 304, 334>>
        IN  /\ ordinal = prefix[date_month] + date_day
                           + (IF date_month >= 3 /\ leap THEN 1 ELSE 0)
            /\ ordinal = DaysBeforeMonth(date_year, date_month) + date_day
            /\ (date_month = 1 /\ date_day = 1) => ordinal = 1
            /\ (date_month = 12 /\ date_day = 31) =>
                   ordinal = (IF leap THEN 366 ELSE 365)
            /\ date_day < DaysInMonth(date_year, date_month) =>
                   get_day_of_year(date_day + 1, date_month, date_year)
                       = ordinal + 1
            /\ (date_day = DaysInMonth(date_year, date_month)
                  /\ date_month < 12) =>
                   get_day_of_year(1, date_month + 1, date_year) = ordinal + 1

C23_Witness ==
    /\ cpc = "done" /\ date_year = 2024 /\ date_month = 2 /\ date_day = 29
    /\ ordinal = 60
    /\ get_day_of_year(1, 3, 2024) = 61 /\ get_day_of_year(1, 3, 1900) = 60

\* C24 (as stated): the step is the sampling interval times 1, 60 or 3600
\* for rate selector 1, 2 or 3, and every run that is not live-only and has
\* another rate selector returns the invalid-sampling-rate error.
C24_InvalidRateAlwaysReported ==
    /\ pc \in {"duration", "count", "epoch", "loop"} =>
         time_step_seconds =
             sampling_interval * (CASE rate_choice = 1 -> 1
                                    [] rate_choice = 2 -> 60
                                    [] rate_choice = 3 -> 3600)
    /\ (pc = "done" /\ ~live_only /\ rate_choice \notin {1, 2, 3}) =>
         ret = ErrorReturn(ErrorMessage("invalid_rate"))

\* C24 (amended): past the rate stage the rate selector is 1, 2 or 3 and the
\* step is the sampling interval times 1, 60 or 3600 respectively; a run
\* that is not live-only, whose elements were accepted and whose rate
\* selector is anything else returns the invalid-sampling-rate error, with
\* no step derived, no sample taken and the propagator called for the live
\* position only.
C24_StepDerivation ==
    /\ (\/ pc \in {"duration", "count", "epoch", "loop"}
        \/ (pc = "done" /\ ~live_only /\ ElementsAccepted
              /\ rate_choice \in {1, 2, 3})) =>
         /\ rate_choice \in {1, 2, 3}
         /\ time_step_seconds =
                sampling_interval * (CASE rate_choice = 1 -> 1
                                       [] rate_choice = 2 -> 60
                                       [] rate_choice = 3 -> 3600)
    /\ (pc = "done" /\ ~live_only /\ ElementsAccepted
          /\ rate_choice \notin {1, 2, 3}) =>
         /\ ret = ErrorReturn(ErrorMessage("invalid_rate"))
         /\ IsNone(raised)
         /\ time_step_seconds = 0 /\ IsNone(start_datetime_utc)
         /\ sample_times = <<>> /\ orbit_data_main = <<>>
         /\ sgp4_calls = 1

C24_Witness ==
    /\ pc = "done" /\ ~live_only /\ ElementsAccepted /\ rate_choice = 0
    /\ sampling_interval = 60 /\ requested_time_h_float = 2
    /\ Message.kind = "invalid_rate" /\ sgp4_calls = 1
    /\ orbit_data_main = <<>>

\* C25 (as stated): with a positive step and duration D, every sample
\* timestamp t lies in the requested window: start <= t <= start + D for a
\* positive D, start + D <= t <= start for a negative one, also when |D| is
\* no whole multiple of the step.
C25_SamplesInsideWindow ==
    (ReachedLoop /\ time_step_seconds > 0) =>
        LET start == Get(start_datetime_utc)
            D == RequestedSeconds(requested_time_h_float)
        IN  \A k \in 1..Len(sample_times) :
              IF D > 0
              THEN start <= sample_times[k] /\ sample_times[k] <= start + D
              ELSE start + D <= sample_times[k] /\ sample_times[k] <= start

\* C25 (amended): with a positive step S, duration D and sample count n,
\* every sample but the last lies strictly inside the window, at a distance
\* below |D| from the start on the side of D's sign; the last one, sample n,
\* lies at distance n * S from the start, which is at least |D| and less
\* than |D| + S, and equals |D| exactly when S divides |D|.
C25_SamplesWithinOneStep ==
    (ReachedLoop /\ time_step_seconds > 0) =>
        LET start == Get(start_datetime_utc)
            S == time_step_seconds
            D == RequestedSeconds(requested_time_h_float)
            A == IF D >= 0 THEN D ELSE -D
            n == num_samples
            off(k) == IF D > 0 THEN sample_times[k] - start
                      ELSE start - sample_times[k]
        IN  /\ \A k \in 1..Len(sample_times) :
                 /\ 0 <= off(k) /\ off(k) < A + S
                 /\ k <= n => off(k) < A
                 /\ k = n + 1 => /\ off(k) = n * S /\ off(k) >= A
                                 /\ (off(k) = A <=> A % S = 0)
            /\ pc = "done" => Len(sample_times) = n + 1

C25_Witness ==
    /\ Returned /\ ReachedLoop /\ time_step_seconds = 45
    /\ requested_time_h_float = 2 /\ Len(sample_times) = 4
    /\ sample_times[4] = Get(start_datetime_utc) + 135
    /\ sample_times[4] > Get(start_datetime_utc) + 120

\* C26: for every footprint built by get_scanning_square_corners and every
\* target latitude, is_point_in_scan_area gives the same answer for the
\* target longitude 180 as for the target longitude -180; so for a footprint
\* centred on the seam with a zero longitudinal half-width.
C26_SeamMeridian ==
    gpc \in {"built", "tested"} =>
        is_point_in_scan_area(target_lat, Deg(180), scan_box)
            = is_point_in_scan_area(target_lat, Deg(-180), scan_box)

\* the angular distance of two longitudes, modulo 360 degrees
AngularDistance(a, b) ==
    LET d == (a - b) % Deg(360)
    IN  IF d <= Deg(180) THEN d ELSE Deg(360) - d

\* C27: for a footprint built for a valid sub-satellite point and a target
\* whose latitude is inside the footprint's latitude interval, the target is
\* covered exactly when its longitude differs from the sub-satellite
\* longitude by at most the longitudinal half-width modulo 360; so when the
\* half-width is 180 degrees or more, every target longitude in [-180, 180]
\* is covered.
C27_WideFootprint ==
    (gpc = "tested" /\ ValidSubPoint
       /\ scan_box[1] <= target_lat /\ target_lat <= scan_box[2]) =>
        /\ HalfWidthLon >= Deg(180) => in_area
        /\ in_area <=> AngularDistance(target_lon, sat_lon) <= HalfWidthLon

\* C28: a sample whose sub-satellite coordinates were rejected as invalid,
\* its footprint being the all-zero box, has covered flag 0 in its row and
\* no entry in the coverage subsequence, whatever the target is, the target
\* (0, 0) included.
C28_ZeroBoxNeverCovered ==
    /\ \A k \in 1..Len(orbit_data_main) :
         LET row == orbit_data_main[k] IN
         (row[4] = 0 /\ ~ValidRowPoint(row)) => row[5] = 0
    /\ \A j \in 1..Len(covered_orbit_positions_with_time_and_box) :
         LET entry == covered_orbit_positions_with_time_and_box[j] IN
         ValidRowPoint(entry)

\* the sum of the per-code tallies
RECURSIVE SumOfTallies(_, _)
SumOfTallies(codes, over) ==
    IF over = {} THEN 0
    ELSE LET c == CHOOSE x \in over : TRUE
         IN  codes[c] + SumOfTallies(codes, over \ {c})

\* C29: in the sample loop and after it, the number of successful
\* propagations plus the sum of the per-code failure tallies is the number
\* of rows of the full sequence, a row has covered flag 1 only if its status
\* code is 0, the covered count does not exceed the success count, and at
\* finalization the number of rows is num_samples + 1.
C29_Accounting ==
    ReachedLoop =>
        /\ successful_propagations
             + SumOfTallies(sgp4_error_codes_encountered,
                            DOMAIN sgp4_error_codes_encountered)
             = Len(orbit_data_main)
        /\ \A k \in 1..Len(orbit_data_main) :
             orbit_data_main[k][5] = 1 => orbit_data_main[k][4] = 0
        /\ total_found_times <= successful_propagations
        /\ pc = "done" => Len(orbit_data_main) = num_samples + 1

\* the window holds two lines of 69 characters
StoredElementsUsable ==
    /\ tle1 # None /\ tle2 # None
    /\ Get(tle1).length = TLE_LINE_LENGTH
    /\ Get(tle2).length = TLE_LINE_LENGTH

\* what the window stores
StoredState == <<tle1, tle2, live_sat_pos_geodetic, live_sat_pos_ecef,
                 checkbox_enable_live_updates, live_update_timer,
                 map_initialized>>

\* C30: after any sequence of checkbox toggles, Visualize clicks and timer
\* ticks the live-update timer is running only while the live-updates box is
\* checked; checking the box while the stored lines are missing or not 69
\* characters long leaves the timer stopped and the box unchecked, without
\* an engine call; and a timer tick with such stored lines changes no stored
\* state and makes no engine call.
C30_LivePolling ==
    /\ [](live_update_timer => checkbox_enable_live_updates)
    /\ [][(/\ last_handler' = "toggle_live_updates"
           /\ ~checkbox_enable_live_updates
           /\ ~StoredElementsUsable)
          => (/\ ~live_update_timer'
              /\ ~checkbox_enable_live_updates'
              /\ engine_calls' = engine_calls)]_vars
    /\ [][(/\ last_handler' = "update_live_position"
           /\ ~StoredElementsUsable)
          => (/\ StoredState' = StoredState
              /\ engine_calls' = engine_calls)]_vars

\* the timer has ticked while it runs, the box is checked and no line is
\* stored, after the engine was called by an earlier click
C30_Witness ==
    /\ last_handler = "update_live_position"
    /\ live_update_timer
    /\ checkbox_enable_live_updates
    /\ ~StoredElementsUsable
    /\ engine_calls > 0

============================================================================
